---- MODULE Spec2Model ----
(***************************************************************************)
(* bolt::MemoryLeakDetector (memory_leak_detector.hpp): the registry of    *)
(* tracked allocations, its incremental counters and its read operations.  *)
(*                                                                         *)
(* Spec      every public operation is one atomic step (single caller).    *)
(* SpecConc  two threads, each running one operation statement by          *)
(*           statement; the class holds no mutex, so the statements of     *)
(*           different threads interleave freely.                          *)
(*                                                                         *)
(* size_t is modelled as an unsigned integer of SizeBits bits: every       *)
(* addition and subtraction on a counter is taken modulo 2^SizeBits.       *)
(* AllocationInfo keeps pointer (the map key), size, file and category;    *)
(* line, function, timestamp and tracked are written once and only         *)
(* rendered by generateReport, so they are left out of the record.         *)
(***************************************************************************)
EXTENDS Integers, FiniteSets, Sequences, TLC

\* ------------------------------------------------------------ bounds
SizeBits == 2
MaxAddr == 2
\* how far around each threshold of formatBytes the byte counts are taken
MaxDelta == 8

Mod == 2 ^ SizeBits
NULL == 0
Addrs == 1..MaxAddr
Ptrs == {NULL} \cup Addrs
\* declared sizes: zero, below half the counter range, and half of it (two
\* of them overflow the counter)
Sizes == {0, Mod \div 2 - 1, Mod \div 2}
Categories == {"general", "buffers"}
Files == {"a.cpp"}
SourceFiles == {"a.cpp", "b.cpp"}
Threads == {"t1", "t2"}

VARIABLES
    enabled_,             \* bool enabled_
    allocations_,         \* std::map<void*, AllocationInfo>
    currentMemoryUsage_,  \* size_t
    peakMemoryUsage_,     \* size_t
    categoryStats_,       \* std::map<std::string, size_t>
    lastOp,               \* history: the call that produced this state
    live,                 \* history: addresses tracked and not yet untracked
    noDup,                \* history: no live address was ever tracked again
    overflowed,           \* history: an addition wrapped since the last clear
    pc,                   \* SpecConc: statement each thread is at
    op,                   \* SpecConc: the call each thread runs
    loc,                  \* SpecConc: each thread's locals and result
    trace,                \* SpecConc: history of registry states
    bytesArg,             \* SpecFormat: the argument of formatBytes
    formatted             \* SpecFormat: the string formatBytes returned

regVars == <<enabled_, allocations_, currentMemoryUsage_, peakMemoryUsage_,
             categoryStats_>>
histVars == <<lastOp, live, noDup, overflowed>>
concVars == <<pc, op, loc, trace>>
fmtVars == <<bytesArg, formatted>>
vars == <<enabled_, allocations_, currentMemoryUsage_, peakMemoryUsage_,
          categoryStats_, lastOp, live, noDup, overflowed,
          pc, op, loc, trace, bytesArg, formatted>>

\* ------------------------------------------------------------ helpers
\* unsigned arithmetic of size_t
Add(a, b) == (a + b) % Mod
Sub(a, b) == (a - b + Mod) % Mod

\* std::map::operator[] read: a missing key is value-initialised to 0
At(m, k) == IF k \in DOMAIN m THEN m[k] ELSE 0

\* std::map::operator[] write: insert or overwrite
Put(m, k, v) == [x \in DOMAIN m \cup {k} |-> IF x = k THEN v ELSE m[x]]

\* std::map::erase
Erase(m, k) == [x \in DOMAIN m \ {k} |-> m[x]]

EmptyMap == [x \in {} |-> 0]

\* the registry as one value
Reg == [enabled |-> enabled_, allocations |-> allocations_,
        currentMemoryUsage |-> currentMemoryUsage_,
        peakMemoryUsage |-> peakMemoryUsage_,
        categoryStats |-> categoryStats_]

Holds(r) ==
    /\ enabled_ = r.enabled
    /\ allocations_ = r.allocations
    /\ currentMemoryUsage_ = r.currentMemoryUsage
    /\ peakMemoryUsage_ = r.peakMemoryUsage
    /\ categoryStats_ = r.categoryStats

Commit(r) ==
    /\ enabled_' = r.enabled
    /\ allocations_' = r.allocations
    /\ currentMemoryUsage_' = r.currentMemoryUsage
    /\ peakMemoryUsage_' = r.peakMemoryUsage
    /\ categoryStats_' = r.categoryStats

\* AllocationInfo(ptr, size, file, line, function, category)
AllocationInfo(size, file, category) ==
    [size |-> size, file |-> file, category |-> category]

\* ------------------------------------------------------------ operations
\* void setEnabled(bool enabled)
\* setEnabled that drops the records when tracking is switched off
setEnabled_DropsRecords(r, b) ==
    IF b THEN [r EXCEPT !.enabled = b]
    ELSE [r EXCEPT !.enabled = b, !.allocations = EmptyMap]

setEnabled(r, b) == [r EXCEPT !.enabled = b]

\* trackAllocation with peakMemoryUsage_ assigned without the comparison
trackAllocation_PeakFollows(r, ptr, size, file, category) ==
    IF ~r.enabled \/ ptr = NULL THEN r
    ELSE [r EXCEPT
            !.allocations = Put(r.allocations, ptr,
                                AllocationInfo(size, file, category)),
            !.currentMemoryUsage = Add(r.currentMemoryUsage, size),
            !.peakMemoryUsage = Add(r.currentMemoryUsage, size),
            !.categoryStats = Put(r.categoryStats, category,
                                  Add(At(r.categoryStats, category), size))]

\* trackAllocation without the test of enabled_
trackAllocation_NoEnabledTest(r, ptr, size, file, category) ==
    IF ptr = NULL THEN r
    ELSE LET cur == Add(r.currentMemoryUsage, size)
         IN [r EXCEPT
               !.allocations = Put(r.allocations, ptr,
                                   AllocationInfo(size, file, category)),
               !.currentMemoryUsage = cur,
               !.peakMemoryUsage = IF cur > r.peakMemoryUsage THEN cur
                                   ELSE r.peakMemoryUsage,
               !.categoryStats = Put(r.categoryStats, category,
                                     Add(At(r.categoryStats, category), size))]

\* trackAllocation that first retires the record it overwrites
trackAllocation_RetiresOld(r, ptr, size, file, category) ==
    IF ~r.enabled \/ ptr = NULL THEN r
    ELSE LET old == IF ptr \in DOMAIN r.allocations
                    THEN r.allocations[ptr].size ELSE 0
             cur == Add(Sub(r.currentMemoryUsage, old), size)
         IN [r EXCEPT
               !.allocations = Put(r.allocations, ptr,
                                   AllocationInfo(size, file, category)),
               !.currentMemoryUsage = cur,
               !.peakMemoryUsage = IF cur > r.peakMemoryUsage THEN cur
                                   ELSE r.peakMemoryUsage,
               !.categoryStats = Put(r.categoryStats, category,
                                     Add(At(r.categoryStats, category), size))]

\* trackAllocation without the test of the null address
trackAllocation_NoNullTest(r, ptr, size, file, category) ==
    IF ~r.enabled THEN r
    ELSE LET cur == Add(r.currentMemoryUsage, size)
         IN [r EXCEPT
               !.allocations = Put(r.allocations, ptr,
                                   AllocationInfo(size, file, category)),
               !.currentMemoryUsage = cur,
               !.peakMemoryUsage = IF cur > r.peakMemoryUsage THEN cur
                                   ELSE r.peakMemoryUsage,
               !.categoryStats = Put(r.categoryStats, category,
                                     Add(At(r.categoryStats, category), size))]

\* void trackAllocation(ptr, size, file, line, function, category)
trackAllocation(r, ptr, size, file, category) ==
    IF ~r.enabled \/ ptr = NULL THEN r
    ELSE LET cur == Add(r.currentMemoryUsage, size)
         IN [r EXCEPT
               !.allocations = Put(r.allocations, ptr,
                                   AllocationInfo(size, file, category)),
               !.currentMemoryUsage = cur,
               !.peakMemoryUsage = IF cur > r.peakMemoryUsage THEN cur
                                   ELSE r.peakMemoryUsage,
               !.categoryStats = Put(r.categoryStats, category,
                                     Add(At(r.categoryStats, category), size))]

\* untrackAllocation that erases the record and leaves the counter
untrackAllocation_KeepsUsage(r, ptr) ==
    IF ~r.enabled \/ ptr = NULL THEN r
    ELSE IF ptr \in DOMAIN r.allocations
         THEN LET info == r.allocations[ptr]
              IN [r EXCEPT
                    !.categoryStats = Put(r.categoryStats, info.category,
                        Sub(At(r.categoryStats, info.category), info.size)),
                    !.allocations = Erase(r.allocations, ptr)]
         ELSE r

\* untrackAllocation through allocations_[ptr] instead of find(): an absent
\* address gets a default AllocationInfo (size 0, category "general")
untrackAllocation_NoFind(r, ptr) ==
    IF ~r.enabled \/ ptr = NULL THEN r
    ELSE LET info == IF ptr \in DOMAIN r.allocations THEN r.allocations[ptr]
                     ELSE AllocationInfo(0, "", "general")
         IN [r EXCEPT
               !.currentMemoryUsage = Sub(r.currentMemoryUsage, info.size),
               !.categoryStats = Put(r.categoryStats, info.category,
                   Sub(At(r.categoryStats, info.category), info.size)),
               !.allocations = Erase(r.allocations, ptr)]

\* untrackAllocation that stops both counters at zero
untrackAllocation_Clamps(r, ptr) ==
    IF ~r.enabled \/ ptr = NULL THEN r
    ELSE IF ptr \in DOMAIN r.allocations
         THEN LET info == r.allocations[ptr]
                  cat == At(r.categoryStats, info.category)
              IN [r EXCEPT
                    !.currentMemoryUsage =
                        IF info.size > r.currentMemoryUsage THEN 0
                        ELSE r.currentMemoryUsage - info.size,
                    !.categoryStats =
                        Put(r.categoryStats, info.category,
                            IF info.size > cat THEN 0 ELSE cat - info.size),
                    !.allocations = Erase(r.allocations, ptr)]
         ELSE r

\* untrackAllocation that leaves the category total as it is
untrackAllocation_KeepsCategory(r, ptr) ==
    IF ~r.enabled \/ ptr = NULL THEN r
    ELSE IF ptr \in DOMAIN r.allocations
         THEN LET info == r.allocations[ptr]
              IN [r EXCEPT
                    !.currentMemoryUsage = Sub(r.currentMemoryUsage, info.size),
                    !.allocations = Erase(r.allocations, ptr)]
         ELSE r

\* void untrackAllocation(ptr)
untrackAllocation(r, ptr) ==
    IF ~r.enabled \/ ptr = NULL THEN r
    ELSE IF ptr \in DOMAIN r.allocations
         THEN LET info == r.allocations[ptr]
              IN [r EXCEPT
                    !.currentMemoryUsage = Sub(r.currentMemoryUsage, info.size),
                    !.categoryStats = Put(r.categoryStats, info.category,
                        Sub(At(r.categoryStats, info.category), info.size)),
                    !.allocations = Erase(r.allocations, ptr)]
         ELSE r

\* clear that also forgets the peak
clear_ResetsPeak(r) == [r EXCEPT !.allocations = EmptyMap,
                                 !.currentMemoryUsage = 0,
                                 !.peakMemoryUsage = 0,
                                 !.categoryStats = EmptyMap]

\* void clear()
clear(r) == [r EXCEPT !.allocations = EmptyMap,
                      !.currentMemoryUsage = 0,
                      !.categoryStats = EmptyMap]

\* resetStats that starts the peak again from zero
resetStats_FromZero(r) == [r EXCEPT !.peakMemoryUsage = 0]

\* void resetStats()
resetStats(r) == [r EXCEPT !.peakMemoryUsage = r.currentMemoryUsage]

\* ------------------------------------------------------------ reads
\* iteration order of std::map<void*, AllocationInfo>: ascending key
RECURSIVE KeysAscending(_)
KeysAscending(S) ==
    IF S = {} THEN <<>>
    ELSE LET k == CHOOSE x \in S : \A y \in S : x <= y
         IN <<k>> \o KeysAscending(S \ {k})

\* hasLeaks answered from the incremental counter
hasLeaks_ByCounter(r) == r.currentMemoryUsage > 0

\* bool hasLeaks() const
hasLeaks(r) == DOMAIN r.allocations # {}

\* size_t getLeakCount() const
getLeakCount(r) == Cardinality(DOMAIN r.allocations)

\* getLeaks that walks the map from its last key to its first
getLeaks_Descending(r) ==
    LET ks == KeysAscending(DOMAIN r.allocations)
    IN [i \in 1..Len(ks) |->
          LET k == ks[Len(ks) + 1 - i]
          IN [pointer |-> k, size |-> r.allocations[k].size,
              file |-> r.allocations[k].file,
              category |-> r.allocations[k].category]]

\* std::vector<AllocationInfo> getLeaks() const
getLeaks(r) ==
    LET ks == KeysAscending(DOMAIN r.allocations)
    IN [i \in 1..Len(ks) |->
          [pointer |-> ks[i], size |-> r.allocations[ks[i]].size,
           file |-> r.allocations[ks[i]].file,
           category |-> r.allocations[ks[i]].category]]

\* the loop "total += pair.second.size" over the first n entries
RECURSIVE TotalLoop(_, _)
TotalLoop(leaks, n) ==
    IF n = 0 THEN 0 ELSE Add(TotalLoop(leaks, n - 1), leaks[n].size)

\* getLeakedBytes answered from the incremental counter
getLeakedBytes_FromCounter(r) == r.currentMemoryUsage

\* size_t getLeakedBytes() const
getLeakedBytes(r) == LET leaks == getLeaks(r) IN TotalLoop(leaks, Len(leaks))

\* the loop "stats.leaksByCategory[info.category] += info.size" (key = "category")
\* and "stats.leaksByFile[info.file] += info.size" (key = "file")
RECURSIVE GroupLoop(_, _, _)
GroupLoop(leaks, n, key) ==
    IF n = 0 THEN EmptyMap
    ELSE LET acc == GroupLoop(leaks, n - 1, key)
             k == leaks[n][key]
         IN Put(acc, k, Add(At(acc, k), leaks[n].size))

\* LeakDetectionStats getStats() const
\* getStats that copies the category totals kept by track and untrack
getStats_FromCategoryStats(r) ==
    LET leaks == getLeaks(r)
    IN [totalLeaks |-> getLeakCount(r),
        totalLeakedBytes |-> getLeakedBytes(r),
        peakMemoryUsage |-> r.peakMemoryUsage,
        currentMemoryUsage |-> r.currentMemoryUsage,
        leaksByCategory |-> r.categoryStats,
        leaksByFile |-> GroupLoop(leaks, Len(leaks), "file")]

getStats(r) ==
    LET leaks == getLeaks(r)
    IN [totalLeaks |-> getLeakCount(r),
        totalLeakedBytes |-> getLeakedBytes(r),
        peakMemoryUsage |-> r.peakMemoryUsage,
        currentMemoryUsage |-> r.currentMemoryUsage,
        leaksByCategory |-> GroupLoop(leaks, Len(leaks), "category"),
        leaksByFile |-> GroupLoop(leaks, Len(leaks), "file")]

\* unit thresholds of formatBytes
KiB == 1024

\* operator<< of a double under std::fixed << std::setprecision(2): the
\* quotient bytes / unit in hundredths, rounded to nearest, ties to even
Fixed2(bytes, unit) ==
    LET shift == unit \div KiB
        whole == bytes \div unit
        rem == bytes % unit
        \* 100 * rem = x * shift + y, taken in two parts so that no
        \* intermediate value leaves the 32-bit integers
        hi == rem \div shift
        lo == rem % shift
        x == 100 * hi + (100 * lo) \div shift
        y == (100 * lo) % shift
        q == x \div KiB
        r == (x % KiB) * shift + y
    IN 100 * whole +
       (IF 2 * r > unit \/ (2 * r = unit /\ q % 2 = 1) THEN q + 1 ELSE q)

\* formatBytes whose comparisons include the threshold itself
formatBytes_InclusiveThresholds(bytes) ==
    IF bytes <= KiB THEN [unit |-> "B", whole |-> bytes, hundredths |-> 0]
    ELSE IF bytes <= KiB * KiB
    THEN [unit |-> "KB", whole |-> Fixed2(bytes, KiB) \div 100,
          hundredths |-> Fixed2(bytes, KiB) % 100]
    ELSE IF bytes <= KiB * KiB * KiB
    THEN [unit |-> "MB", whole |-> Fixed2(bytes, KiB * KiB) \div 100,
          hundredths |-> Fixed2(bytes, KiB * KiB) % 100]
    ELSE [unit |-> "GB", whole |-> Fixed2(bytes, KiB * KiB * KiB) \div 100,
          hundredths |-> Fixed2(bytes, KiB * KiB * KiB) % 100]

\* std::string formatBytes(size_t bytes) const
formatBytes(bytes) ==
    IF bytes < KiB THEN [unit |-> "B", whole |-> bytes, hundredths |-> 0]
    ELSE IF bytes < KiB * KiB
    THEN [unit |-> "KB", whole |-> Fixed2(bytes, KiB) \div 100,
          hundredths |-> Fixed2(bytes, KiB) % 100]
    ELSE IF bytes < KiB * KiB * KiB
    THEN [unit |-> "MB", whole |-> Fixed2(bytes, KiB * KiB) \div 100,
          hundredths |-> Fixed2(bytes, KiB * KiB) % 100]
    ELSE [unit |-> "GB", whole |-> Fixed2(bytes, KiB * KiB * KiB) \div 100,
          hundredths |-> Fixed2(bytes, KiB * KiB * KiB) % 100]

\* std::map<std::string, size_t> iterates its keys in ascending
\* (lexicographic) order; the strings of the model in that order
StringsAscending == <<"a.cpp", "b.cpp", "buffers", "general">>

KeysOf(m) == SelectSeq(StringsAscending, LAMBDA k : k \in DOMAIN m)

\* lines 189-196 and 199-206: a title and one line per key, nothing when
\* the map is empty
Breakdown(title, m) ==
    IF DOMAIN m = {} THEN <<>>
    ELSE <<title>> \o [i \in 1..Len(KeysOf(m)) |->
                         <<KeysOf(m)[i], formatBytes(m[KeysOf(m)[i]])>>]

\* lines 211-224: the block of leak number i (the line number, the function
\* name and the age in seconds are not modelled: their lines carry no value)
RECURSIVE LeakBlocks(_, _)
LeakBlocks(leaks, n) ==
    IF n = 0 THEN <<>>
    ELSE LeakBlocks(leaks, n - 1) \o
         << <<"Leak #", n>>,
            <<"  Address: ", leaks[n].pointer>>,
            <<"  Size: ", formatBytes(leaks[n].size)>>,
            <<"  Location: ", leaks[n].file>>,
            "  Function: ",
            <<"  Category: ", leaks[n].category>>,
            "  Age: " >>

ReportHeader == "=== Memory Leak Detection Report ==="

\* the report with the file breakdown ahead of the category breakdown
RenderLeaks_FilesFirst(stats, leaks) ==
    << ReportHeader, "Memory leaks detected!", "Summary:",
       <<"  Total leaks: ", stats.totalLeaks>>,
       <<"  Total leaked: ", formatBytes(stats.totalLeakedBytes)>>,
       <<"  Peak usage: ", formatBytes(stats.peakMemoryUsage)>>,
       <<"  Current usage: ", formatBytes(stats.currentMemoryUsage)>> >>
    \o Breakdown("Leaks by file:", stats.leaksByFile)
    \o Breakdown("Leaks by category:", stats.leaksByCategory)
    \o <<"Detailed leak information:">>
    \o LeakBlocks(leaks, Len(leaks))

\* lines 181-226: the report of stats and leaks, as the lines streamed
RenderLeaks(stats, leaks) ==
    << ReportHeader, "Memory leaks detected!", "Summary:",
       <<"  Total leaks: ", stats.totalLeaks>>,
       <<"  Total leaked: ", formatBytes(stats.totalLeakedBytes)>>,
       <<"  Peak usage: ", formatBytes(stats.peakMemoryUsage)>>,
       <<"  Current usage: ", formatBytes(stats.currentMemoryUsage)>> >>
    \o Breakdown("Leaks by category:", stats.leaksByCategory)
    \o Breakdown("Leaks by file:", stats.leaksByFile)
    \o <<"Detailed leak information:">>
    \o LeakBlocks(leaks, Len(leaks))

\* lines 173-177: the report when there is no leak
RenderClean(peak) ==
    << ReportHeader, "No memory leaks detected!",
       <<"Peak memory usage: ", formatBytes(peak)>> >>

\* std::string generateReport() const
generateReport(r) ==
    IF ~hasLeaks(r) THEN RenderClean(r.peakMemoryUsage)
    ELSE RenderLeaks(getStats(r), getLeaks(r))

NoLeaksSummary == <<"No memory leaks detected.">>

\* std::string generateSummary() const, as the sequence of items streamed
generateSummary(r) ==
    IF ~hasLeaks(r) THEN NoLeaksSummary
    ELSE LET stats == getStats(r)
         IN <<stats.totalLeaks, " leaks, ",
              formatBytes(stats.totalLeakedBytes), " leaked">>

\* ------------------------------------------------------------ Spec
NoOp == [name |-> "init", isNull |-> TRUE, wasLive |-> FALSE,
         underflow |-> FALSE]

\* the call subtracts more than currentMemoryUsage_ or its category total holds
Underflows(name, ptr) ==
    /\ name = "untrackAllocation"
    /\ enabled_
    /\ ptr \in DOMAIN allocations_
    /\ LET info == allocations_[ptr]
       IN \/ info.size > currentMemoryUsage_
          \/ info.size > At(categoryStats_, info.category)

\* the call's addition to currentMemoryUsage_ or to a category total wraps
Overflows(ptr, size, category) ==
    /\ enabled_
    /\ ptr # NULL
    /\ \/ currentMemoryUsage_ + size >= Mod
       \/ At(categoryStats_, category) + size >= Mod

Call(name, ptr) == [name |-> name, isNull |-> (ptr = NULL),
                    wasLive |-> ptr \in DOMAIN allocations_,
                    underflow |-> Underflows(name, ptr)]

\* a default-constructed LeakDetectionStats
Stats0 == [totalLeaks |-> 0, totalLeakedBytes |-> 0, peakMemoryUsage |-> 0,
           currentMemoryUsage |-> 0, leaksByCategory |-> EmptyMap,
           leaksByFile |-> EmptyMap]

Loc0 == [tmp |-> 0, key |-> "", stats |-> Stats0, result |-> <<>>]

\* no string formatted yet
NoText == [unit |-> "", whole |-> 0, hundredths |-> 0]

FormatIdle ==
    /\ bytesArg = 0
    /\ formatted = NoText

ConcIdle ==
    /\ pc = [t \in Threads |-> "done"]
    /\ op = [t \in Threads |-> [name |-> "none"]]
    /\ loc = [t \in Threads |-> Loc0]
    /\ trace = [init |-> Reg, seen |-> {}]

Init ==
    /\ enabled_ = TRUE
    /\ allocations_ = EmptyMap
    /\ currentMemoryUsage_ = 0
    /\ peakMemoryUsage_ = 0
    /\ categoryStats_ = EmptyMap
    /\ lastOp = NoOp
    /\ live = {}
    /\ noDup = TRUE
    /\ overflowed = FALSE
    /\ ConcIdle
    /\ FormatIdle

SetEnabled ==
    \E b \in BOOLEAN :
        /\ Commit(setEnabled(Reg, b))
        /\ lastOp' = Call("setEnabled", NULL)
        /\ UNCHANGED <<live, noDup, overflowed, concVars, fmtVars>>

Track(ptr, size, file, category) ==
    /\ Commit(trackAllocation(Reg, ptr, size, file, category))
    /\ lastOp' = Call("trackAllocation", ptr)
    /\ live' = IF enabled_ /\ ptr # NULL THEN live \cup {ptr} ELSE live
    /\ noDup' = (noDup /\ ~(enabled_ /\ ptr \in live))
    /\ overflowed' = (overflowed \/ Overflows(ptr, size, category))
    /\ UNCHANGED <<concVars, fmtVars>>

\* the runs explored hold at most one wrapped addition between two clear()
\* calls: tracking stops once an addition has wrapped a counter
TrackAllocation ==
    /\ ~overflowed
    /\ \E ptr \in Ptrs, size \in Sizes, file \in Files,
          category \in Categories :
           Track(ptr, size, file, category)

Untrack(ptr) ==
    /\ Commit(untrackAllocation(Reg, ptr))
    /\ lastOp' = Call("untrackAllocation", ptr)
    /\ live' = IF enabled_ THEN live \ {ptr} ELSE live
    /\ UNCHANGED <<noDup, overflowed, concVars, fmtVars>>

UntrackAllocation == \E ptr \in Ptrs : Untrack(ptr)

Clear ==
    /\ Commit(clear(Reg))
    /\ lastOp' = Call("clear", NULL)
    /\ live' = {}
    /\ overflowed' = FALSE
    /\ UNCHANGED <<noDup, concVars, fmtVars>>

ResetStats ==
    /\ Commit(resetStats(Reg))
    /\ lastOp' = Call("resetStats", NULL)
    /\ UNCHANGED <<live, noDup, overflowed, concVars, fmtVars>>

Next ==
    \/ SetEnabled
    \/ TrackAllocation
    \/ UntrackAllocation
    \/ Clear
    \/ ResetStats

Spec == Init /\ [][Next]_vars

\* ------------------------------------------------------------ SpecFiles
\* allocations made from two source files, tracked and untracked while
\* tracking stays on; tracking stops once an addition has wrapped a counter
TrackFromFiles ==
    /\ ~overflowed
    /\ \E ptr \in Addrs, size \in Sizes, file \in SourceFiles,
       category \in Categories :
        Track(ptr, size, file, category)

NextFiles ==
    \/ TrackFromFiles
    \/ UntrackAllocation

SpecFiles == Init /\ [][NextFiles]_vars

\* ------------------------------------------------------------ SpecFormat
\* formatBytes applied to byte counts at and around its thresholds, in the
\* middle of each unit's range (12.50 and 1.50 units), and to the largest
\* 32-bit integer
Thresholds == {0, KiB, KiB * KiB, KiB * KiB * KiB}

FormatInputs ==
    {n \in {t + d : t \in Thresholds, d \in (0 - MaxDelta)..MaxDelta} : n >= 0}
    \cup {25 * (KiB \div 2), 25 * ((KiB * KiB) \div 2)}
    \cup {3 * (KiB \div 2), 3 * ((KiB * KiB) \div 2),
          3 * ((KiB * KiB * KiB) \div 2)}
    \cup {KiB * KiB * KiB + (KiB * KiB * KiB - 1)}

InitFormat ==
    /\ enabled_ = TRUE
    /\ allocations_ = EmptyMap
    /\ currentMemoryUsage_ = 0
    /\ peakMemoryUsage_ = 0
    /\ categoryStats_ = EmptyMap
    /\ lastOp = NoOp
    /\ live = {}
    /\ noDup = TRUE
    /\ overflowed = FALSE
    /\ ConcIdle
    /\ bytesArg \in FormatInputs
    /\ formatted = NoText

FormatBytes ==
    /\ formatted = NoText
    /\ formatted' = formatBytes(bytesArg)
    /\ UNCHANGED <<regVars, histVars, concVars, bytesArg>>

NextFormat == FormatBytes

SpecFormat == InitFormat /\ [][NextFormat]_vars

\* ------------------------------------------------------------ SpecConc
\* The member functions take no lock (the class has no mutex member), so a
\* call is a sequence of statements, each reading and writing the shared
\* members directly.  A step is named after the source line it runs.
Registry0 == [enabled |-> TRUE, allocations |-> EmptyMap,
              currentMemoryUsage |-> 0, peakMemoryUsage |-> 0,
              categoryStats |-> EmptyMap]

\* registries the threads start from: the constructed one, or the one after
\* a first trackAllocation of address 1
ConcStarts ==
    {Registry0} \cup
    {trackAllocation(Registry0, 1, size, file, category) :
       size \in Sizes, file \in Files, category \in Categories}

ConcCalls ==
    [name : {"trackAllocation"}, ptr : Addrs, size : Sizes, file : Files,
     category : Categories]
    \cup [name : {"untrackAllocation"}, ptr : Addrs]
    \cup [name : {"getStats", "generateSummary", "generateReport"}]

Entry(call) ==
    CASE call.name = "trackAllocation" -> "t82"
      [] call.name = "untrackAllocation" -> "u99"
      [] call.name = "getStats" -> "g150"
      [] call.name = "generateSummary" -> "s235"
      [] call.name = "generateReport" -> "r173"

Readers == {"getStats", "generateSummary", "generateReport"}

InitConc ==
    /\ \E r \in ConcStarts : Holds(r)
    /\ lastOp = NoOp
    /\ live = DOMAIN allocations_
    /\ noDup = TRUE
    /\ overflowed = FALSE
    /\ op \in [Threads -> ConcCalls]
    /\ pc = [t \in Threads |-> Entry(op[t])]
    /\ loc = [t \in Threads |-> Loc0]
    /\ trace = [init |-> Reg, seen |-> {Reg}]
    /\ FormatIdle

\* the registry states a reader's call overlaps
Record ==
    trace' = IF \E t \in Threads : op[t].name \in Readers
             THEN [trace EXCEPT !.seen = @ \cup {Reg'}]
             ELSE trace

Goto(t, l) == pc' = [pc EXCEPT ![t] = l]
SetLoc(t, f, v) == loc' = [loc EXCEPT ![t][f] = v]

\* line 82: if (!enabled_ || !ptr) return;
T82(t) ==
    /\ pc[t] = "t82"
    /\ Goto(t, IF ~enabled_ \/ op[t].ptr = NULL THEN "done" ELSE "t85")
    /\ UNCHANGED <<regVars, histVars, fmtVars, op, loc, trace>>

\* lines 84-85: allocations_[ptr] = info;
T85(t) ==
    /\ pc[t] = "t85"
    /\ allocations_' = Put(allocations_, op[t].ptr,
                           AllocationInfo(op[t].size, op[t].file, op[t].category))
    /\ Goto(t, "t87r")
    /\ UNCHANGED <<enabled_, currentMemoryUsage_, peakMemoryUsage_,
                   categoryStats_, histVars, fmtVars, op, loc>>
    /\ Record

\* line 87: currentMemoryUsage_ += size;  (load)
T87r(t) ==
    /\ pc[t] = "t87r"
    /\ SetLoc(t, "tmp", currentMemoryUsage_)
    /\ Goto(t, "t87w")
    /\ UNCHANGED <<regVars, histVars, fmtVars, op, trace>>

\* line 87: currentMemoryUsage_ += size;  (store)
T87w(t) ==
    /\ pc[t] = "t87w"
    /\ currentMemoryUsage_' = Add(loc[t].tmp, op[t].size)
    /\ Goto(t, "t88")
    /\ UNCHANGED <<enabled_, allocations_, peakMemoryUsage_, categoryStats_,
                   histVars, fmtVars, op, loc>>
    /\ Record

\* line 88: if (currentMemoryUsage_ > peakMemoryUsage_)
T88(t) ==
    /\ pc[t] = "t88"
    /\ Goto(t, IF currentMemoryUsage_ > peakMemoryUsage_ THEN "t89" ELSE "t92r")
    /\ UNCHANGED <<regVars, histVars, fmtVars, op, loc, trace>>

\* line 89: peakMemoryUsage_ = currentMemoryUsage_;
T89(t) ==
    /\ pc[t] = "t89"
    /\ peakMemoryUsage_' = currentMemoryUsage_
    /\ Goto(t, "t92r")
    /\ UNCHANGED <<enabled_, allocations_, currentMemoryUsage_, categoryStats_,
                   histVars, fmtVars, op, loc>>
    /\ Record

\* line 92: categoryStats_[category] += size;  (load)
T92r(t) ==
    /\ pc[t] = "t92r"
    /\ SetLoc(t, "tmp", At(categoryStats_, op[t].category))
    /\ Goto(t, "t92w")
    /\ UNCHANGED <<regVars, histVars, fmtVars, op, trace>>

\* line 92: categoryStats_[category] += size;  (store)
T92w(t) ==
    /\ pc[t] = "t92w"
    /\ categoryStats_' = Put(categoryStats_, op[t].category,
                             Add(loc[t].tmp, op[t].size))
    /\ Goto(t, "done")
    /\ UNCHANGED <<enabled_, allocations_, currentMemoryUsage_,
                   peakMemoryUsage_, histVars, fmtVars, op, loc>>
    /\ Record

\* line 99: if (!enabled_ || !ptr) return;
U99(t) ==
    /\ pc[t] = "u99"
    /\ Goto(t, IF ~enabled_ \/ op[t].ptr = NULL THEN "done" ELSE "u101")
    /\ UNCHANGED <<regVars, histVars, fmtVars, op, loc, trace>>

\* lines 101-102: it = allocations_.find(ptr); if (it != allocations_.end())
U101(t) ==
    /\ pc[t] = "u101"
    /\ Goto(t, IF op[t].ptr \in DOMAIN allocations_ THEN "u103r" ELSE "done")
    /\ UNCHANGED <<regVars, histVars, fmtVars, op, loc, trace>>

\* it->second.size: the record's size, or any value once another thread
\* has erased the node the iterator points to
ItSize(t) ==
    IF op[t].ptr \in DOMAIN allocations_
    THEN {allocations_[op[t].ptr].size} ELSE 0..(Mod - 1)

\* it->second.category, likewise
ItCategory(t) ==
    IF op[t].ptr \in DOMAIN allocations_
    THEN {allocations_[op[t].ptr].category} ELSE Categories

\* line 103: currentMemoryUsage_ -= it->second.size;  (load)
U103r(t) ==
    /\ pc[t] = "u103r"
    /\ SetLoc(t, "tmp", currentMemoryUsage_)
    /\ Goto(t, "u103w")
    /\ UNCHANGED <<regVars, histVars, fmtVars, op, trace>>

\* line 103: currentMemoryUsage_ -= it->second.size;  (store)
U103w(t) ==
    /\ pc[t] = "u103w"
    /\ \E size \in ItSize(t) : currentMemoryUsage_' = Sub(loc[t].tmp, size)
    /\ Goto(t, "u104r")
    /\ UNCHANGED <<enabled_, allocations_, peakMemoryUsage_, categoryStats_,
                   histVars, fmtVars, op, loc>>
    /\ Record

\* line 104: categoryStats_[it->second.category] -= it->second.size;  (load)
U104r(t) ==
    /\ pc[t] = "u104r"
    /\ \E category \in ItCategory(t) :
         loc' = [loc EXCEPT ![t].key = category,
                            ![t].tmp = At(categoryStats_, category)]
    /\ Goto(t, "u104w")
    /\ UNCHANGED <<regVars, histVars, fmtVars, op, trace>>

\* line 104: categoryStats_[it->second.category] -= it->second.size;  (store)
U104w(t) ==
    /\ pc[t] = "u104w"
    /\ \E size \in ItSize(t) :
         categoryStats_' = Put(categoryStats_, loc[t].key, Sub(loc[t].tmp, size))
    /\ Goto(t, "u105")
    /\ UNCHANGED <<enabled_, allocations_, currentMemoryUsage_,
                   peakMemoryUsage_, histVars, fmtVars, op, loc>>
    /\ Record

\* line 105: allocations_.erase(it);  erasing a node another thread erased
\* already either leaves the map as it is or aborts the process
U105(t) ==
    /\ pc[t] = "u105"
    /\ IF op[t].ptr \in DOMAIN allocations_
       THEN /\ allocations_' = Erase(allocations_, op[t].ptr)
            /\ Goto(t, "done")
       ELSE /\ allocations_' = allocations_
            /\ \E l \in {"done", "aborted"} : Goto(t, l)
    /\ UNCHANGED <<enabled_, currentMemoryUsage_, peakMemoryUsage_,
                   categoryStats_, histVars, fmtVars, op, loc>>
    /\ Record

\* line 235: if (!hasLeaks())
S235(t) ==
    /\ pc[t] = "s235"
    /\ IF hasLeaks(Reg)
       THEN Goto(t, "g150") /\ UNCHANGED loc
       ELSE Goto(t, "done") /\ SetLoc(t, "result", NoLeaksSummary)
    /\ UNCHANGED <<regVars, histVars, fmtVars, op, trace>>

\* line 150: stats.totalLeaks = getLeakCount();
G150(t) ==
    /\ pc[t] = "g150"
    /\ loc' = [loc EXCEPT ![t].stats.totalLeaks = getLeakCount(Reg)]
    /\ Goto(t, "g151")
    /\ UNCHANGED <<regVars, histVars, fmtVars, op, trace>>

\* line 151: stats.totalLeakedBytes = getLeakedBytes();
G151(t) ==
    /\ pc[t] = "g151"
    /\ loc' = [loc EXCEPT ![t].stats.totalLeakedBytes = getLeakedBytes(Reg)]
    /\ Goto(t, "g152")
    /\ UNCHANGED <<regVars, histVars, fmtVars, op, trace>>

\* line 152: stats.peakMemoryUsage = peakMemoryUsage_;
G152(t) ==
    /\ pc[t] = "g152"
    /\ loc' = [loc EXCEPT ![t].stats.peakMemoryUsage = peakMemoryUsage_]
    /\ Goto(t, "g153")
    /\ UNCHANGED <<regVars, histVars, fmtVars, op, trace>>

\* line 153: stats.currentMemoryUsage = currentMemoryUsage_;
G153(t) ==
    /\ pc[t] = "g153"
    /\ loc' = [loc EXCEPT ![t].stats.currentMemoryUsage = currentMemoryUsage_]
    /\ Goto(t, "g156")
    /\ UNCHANGED <<regVars, histVars, fmtVars, op, trace>>

\* lines 156-162: the grouping loop, then return stats: to the caller of
\* getStats, to lines 239-240 of generateSummary, or to line 179 of
\* generateReport
G156(t) ==
    /\ pc[t] = "g156"
    /\ LET stats == [loc[t].stats EXCEPT
                       !.leaksByCategory = getStats(Reg).leaksByCategory,
                       !.leaksByFile = getStats(Reg).leaksByFile]
       IN loc' = [loc EXCEPT
                    ![t].stats = stats,
                    ![t].result =
                       IF op[t].name = "getStats" THEN stats
                       ELSE IF op[t].name = "generateSummary"
                       THEN <<stats.totalLeaks, " leaks, ",
                              formatBytes(stats.totalLeakedBytes), " leaked">>
                       ELSE <<>>]
    /\ Goto(t, IF op[t].name = "generateReport" THEN "r210" ELSE "done")
    /\ UNCHANGED <<regVars, histVars, fmtVars, op, trace>>

\* lines 173-177: if (!hasLeaks()) { ... formatBytes(peakMemoryUsage_) ... }
R173(t) ==
    /\ pc[t] = "r173"
    /\ IF hasLeaks(Reg)
       THEN Goto(t, "g150") /\ UNCHANGED loc
       ELSE Goto(t, "r175") /\ UNCHANGED loc
    /\ UNCHANGED <<regVars, histVars, fmtVars, op, trace>>

\* line 175: report << "Peak memory usage: " << formatBytes(peakMemoryUsage_)
R175(t) ==
    /\ pc[t] = "r175"
    /\ SetLoc(t, "result", RenderClean(peakMemoryUsage_))
    /\ Goto(t, "done")
    /\ UNCHANGED <<regVars, histVars, fmtVars, op, trace>>

\* lines 181-226: render stats, then auto leaks = getLeaks(); and the blocks
R210(t) ==
    /\ pc[t] = "r210"
    /\ SetLoc(t, "result", RenderLeaks(loc[t].stats, getLeaks(Reg)))
    /\ Goto(t, "done")
    /\ UNCHANGED <<regVars, histVars, fmtVars, op, trace>>

Step(t) ==
    \/ T82(t) \/ T85(t) \/ T87r(t) \/ T87w(t) \/ T88(t) \/ T89(t)
    \/ T92r(t) \/ T92w(t)
    \/ U99(t) \/ U101(t) \/ U103r(t) \/ U103w(t) \/ U104r(t) \/ U104w(t)
    \/ U105(t)
    \/ S235(t) \/ G150(t) \/ G151(t) \/ G152(t) \/ G153(t) \/ G156(t)
    \/ R173(t) \/ R175(t) \/ R210(t)

NextConc == \E t \in Threads : Step(t)

SpecConc == InitConc /\ [][NextConc]_vars

\* ------------------------------------------------------------ properties
\* the sum of size over a set of keys of an allocation map, in size_t
\* arithmetic
RECURSIVE SumSizes(_, _)
SumSizes(m, S) ==
    IF S = {} THEN 0
    ELSE LET k == CHOOSE x \in S : TRUE
         IN (m[k].size + SumSizes(m, S \ {k})) % Mod

SumLive == SumSizes(allocations_, DOMAIN allocations_)

\* C1 (balance law): as long as no address was tracked again while live,
\* currentMemoryUsage_ is the sum of size over the records of allocations_
\* (in size_t arithmetic) and getLeakCount() is the number of addresses
\* tracked and not yet untracked.
C1_Balance ==
    noDup => /\ currentMemoryUsage_ = SumLive
             /\ getLeakCount(Reg) = Cardinality(live)
             /\ DOMAIN allocations_ = live

\* an untrack of a live address has left the other record and its bytes
C1_Witness ==
    /\ noDup
    /\ lastOp.name = "untrackAllocation" /\ lastOp.wasLive /\ enabled_
    /\ Cardinality(live) = MaxAddr - 1
    /\ currentMemoryUsage_ > 0

\* C3 as claimed: peakMemoryUsage_ >= currentMemoryUsage_ in every
\* reachable state.
C3_PeakAtLeastCurrent == peakMemoryUsage_ >= currentMemoryUsage_

\* C4 (peak monotonicity): no step other than resetStats lowers
\* peakMemoryUsage_.
C4_PeakMonotone ==
    [][lastOp'.name # "resetStats" => peakMemoryUsage_' >= peakMemoryUsage_]_vars

\* an untrack has lowered the current usage below a peak that stayed
C4_Witness ==
    /\ lastOp.name = "untrackAllocation" /\ lastOp.wasLive /\ enabled_
    /\ peakMemoryUsage_ > currentMemoryUsage_
    /\ peakMemoryUsage_ > 0

\* C5 (untrack of an absent address): untrackAllocation(p) with no live
\* record for p changes nothing of the registry, and after any
\* untrackAllocation(p) a second untrackAllocation(p) changes nothing.
C5_UntrackAbsent ==
    [][lastOp'.name = "untrackAllocation" =>
       \A ptr \in Ptrs :
         Reg' = untrackAllocation(Reg, ptr) =>
           /\ ptr \notin DOMAIN allocations_ => UNCHANGED regVars
           /\ untrackAllocation(Reg', ptr) = Reg']_vars

\* an enabled detector holding a record was asked to untrack an absent
\* non-null address
C5_Witness ==
    /\ lastOp.name = "untrackAllocation" /\ ~lastOp.isNull
    /\ ~lastOp.wasLive /\ enabled_
    /\ allocations_ # EmptyMap
    /\ currentMemoryUsage_ > 0

\* C6 (disabled no-op): while enabled_ is false, trackAllocation and
\* untrackAllocation leave the live set, the leak count and every counter
\* unchanged.
C6_DisabledNoOp ==
    [][(~enabled_ /\ lastOp'.name \in {"trackAllocation", "untrackAllocation"})
         => /\ UNCHANGED regVars
            /\ getLeakCount(Reg') = getLeakCount(Reg)]_vars

\* a disabled detector was asked to untrack an address that is live
C6_Witness ==
    /\ lastOp.name = "untrackAllocation" /\ lastOp.wasLive
    /\ ~enabled_
    /\ allocations_ # EmptyMap

\* C8 (report/stat consistency): generateSummary() is the no-leaks message
\* exactly when getStats().totalLeaks is 0, and otherwise renders
\* getStats().totalLeaks and getStats().totalLeakedBytes of the same state.
C8_SummaryMatchesStats ==
    LET s == generateSummary(Reg)
        stats == getStats(Reg)
    IN /\ (s = NoLeaksSummary) <=> (stats.totalLeaks = 0)
       /\ stats.totalLeaks # 0 =>
            /\ Len(s) = 4
            /\ s[1] = stats.totalLeaks
            /\ s[1] = Cardinality(DOMAIN allocations_)
            /\ s[3] = formatBytes(stats.totalLeakedBytes)
            /\ s[3] = formatBytes(SumLive)

\* a summary of two leaks whose byte total differs from the drifted counter
C8_Witness ==
    /\ getStats(Reg).totalLeaks = MaxAddr
    /\ generateSummary(Reg)[3].whole # currentMemoryUsage_
    /\ generateSummary(Reg)[3].whole > 0

\* C9 (duplicate-address track): in every reachable state with the
\* detector enabled, trackAllocation(p, s2, .., c2) on a live p replaces the
\* record, keeps the leak count, adds s2 to currentMemoryUsage_ and
\* categoryStats_[c2] and subtracts the old size from neither counter.
C9_DuplicateTrack ==
    enabled_ =>
      \A ptr \in DOMAIN allocations_, size \in Sizes, file \in Files,
         category \in Categories :
        LET old == allocations_[ptr]
            new == trackAllocation(Reg, ptr, size, file, category)
        IN /\ new.allocations[ptr] = AllocationInfo(size, file, category)
           /\ DOMAIN new.allocations = DOMAIN allocations_
           /\ getLeakCount(new) = getLeakCount(Reg)
           /\ new.currentMemoryUsage = Add(currentMemoryUsage_, size)
           /\ At(new.categoryStats, category)
                = Add(At(categoryStats_, category), size)
           /\ old.category # category =>
                At(new.categoryStats, old.category)
                  = At(categoryStats_, old.category)

\* a live address was tracked again under another category: the old
\* category keeps a total although no live record carries it
C9_Witness ==
    /\ lastOp.name = "trackAllocation" /\ lastOp.wasLive /\ enabled_
    /\ \E c \in Categories :
         /\ At(categoryStats_, c) # 0
         /\ \A p \in DOMAIN allocations_ : allocations_[p].category # c
    /\ currentMemoryUsage_ # SumLive

\* C10 (full-rescan statistics): getLeakedBytes() and
\* getStats().totalLeakedBytes are the sum of size over the records of
\* allocations_ (in size_t arithmetic), whatever currentMemoryUsage_ is.
C10_RescanIsLiveSum ==
    /\ getLeakedBytes(Reg) = SumLive
    /\ getStats(Reg).totalLeakedBytes = SumLive

\* the incremental counter has drifted from the sum over two live records
C10_Witness ==
    /\ ~noDup
    /\ Cardinality(DOMAIN allocations_) = MaxAddr
    /\ currentMemoryUsage_ # SumLive
    /\ getLeakedBytes(Reg) # 0

\* the effect of a whole call on a registry, as a single caller sees it
Apply(r, call) ==
    CASE call.name = "trackAllocation" ->
           trackAllocation(r, call.ptr, call.size, call.file, call.category)
      [] call.name = "untrackAllocation" -> untrackAllocation(r, call.ptr)
      [] OTHER -> r

\* the registries the two calls produce when run one after the other
SequentialOutcomes ==
    {Apply(Apply(trace.init, op[a]), op[b]) :
       <<a, b>> \in {x \in Threads \X Threads : x[1] # x[2]}}

\* what a reader returns for a registry it reads in one piece
ReadResult(r, name) ==
    CASE name = "getStats" -> getStats(r)
      [] name = "generateSummary" -> generateSummary(r)
      [] name = "generateReport" -> generateReport(r)

\* C2 as claimed: whatever the interleaving of two concurrent calls, once
\* both have returned the registry is the one some sequential order of the
\* two calls produces (no update of a counter is lost).
C2_Serializable ==
    (\A t \in Threads : pc[t] = "done") => Reg \in SequentialOutcomes

\* C7 as claimed: what getStats, generateSummary or generateReport returns
\* while another thread tracks or untracks is what it returns for one
\* single registry state of the run, and generateSummary never renders a
\* leak line with 0 leaks.
C7_ConsistentSnapshot ==
    \A t \in Threads :
      (pc[t] = "done" /\ op[t].name \in Readers) =>
        /\ \E r \in trace.seen : loc[t].result = ReadResult(r, op[t].name)
        /\ (op[t].name = "generateSummary" /\ loc[t].result # NoLeaksSummary)
             => loc[t].result[1] # 0

\* C11: after a duplicate track of a live address an untrackAllocation can
\* subtract more than currentMemoryUsage_ or the record's category total
\* holds; the counter is not stopped at zero, it wraps around to the value
\* plus 2^SizeBits (in every other untrack of a live record it goes down by
\* the record's size). It happens only after an addition of trackAllocation
\* has itself wrapped a counter since the last clear.
C11_UntrackWraps ==
    [][(lastOp'.name = "untrackAllocation" /\ lastOp'.wasLive /\ enabled_) =>
       \E ptr \in DOMAIN allocations_ \ DOMAIN allocations_' :
         LET info == allocations_[ptr]
             cat == At(categoryStats_, info.category)
         IN /\ currentMemoryUsage_' =
                 IF info.size > currentMemoryUsage_
                 THEN currentMemoryUsage_ + Mod - info.size
                 ELSE currentMemoryUsage_ - info.size
            /\ At(categoryStats_', info.category) =
                 IF info.size > cat THEN cat + Mod - info.size
                 ELSE cat - info.size
            /\ lastOp'.underflow =
                 (info.size > currentMemoryUsage_ \/ info.size > cat)
            /\ lastOp'.underflow => overflowed]_vars

\* an untrack that wrapped currentMemoryUsage_ in a run with a duplicate track
C11_Witness ==
    /\ lastOp.underflow
    /\ ~noDup
    /\ currentMemoryUsage_ >= Mod \div 2

\* C12: clear(), called in any state, empties allocations_, sets
\* currentMemoryUsage_ to 0 and leaves every category total at zero; it leaves
\* peakMemoryUsage_ and enabled_ as they were, and hasLeaks() is false after it.
C12_ClearFrame ==
    [][lastOp'.name = "clear" =>
       /\ DOMAIN allocations_' = {}
       /\ currentMemoryUsage_' = 0
       /\ \A c \in Categories : At(categoryStats_', c) = 0
       /\ peakMemoryUsage_' = peakMemoryUsage_
       /\ enabled_' = enabled_
       /\ ~hasLeaks(Reg')
       /\ getLeakCount(Reg') = 0]_vars

\* clear() ran while tracking was off; the peak of the earlier tracking is
\* still there
C12_Witness ==
    /\ lastOp.name = "clear"
    /\ ~enabled_
    /\ peakMemoryUsage_ > 0
    /\ currentMemoryUsage_ = 0
    /\ DOMAIN allocations_ = {}

\* C13: resetStats() sets peakMemoryUsage_ to the present currentMemoryUsage_
\* and changes nothing else: allocations_, currentMemoryUsage_, categoryStats_
\* and enabled_ keep their values.
C13_ResetStatsFrame ==
    [][lastOp'.name = "resetStats" =>
       /\ peakMemoryUsage_' = currentMemoryUsage_
       /\ UNCHANGED <<allocations_, currentMemoryUsage_, categoryStats_,
                      enabled_>>]_vars

\* resetStats() ran on a registry with live records and non-zero usage
C13_Witness ==
    /\ lastOp.name = "resetStats"
    /\ DOMAIN allocations_ # {}
    /\ currentMemoryUsage_ > 0
    /\ peakMemoryUsage_ = currentMemoryUsage_

\* C14: setEnabled(b) changes enabled_ and nothing else, and hasLeaks,
\* getLeakCount, getLeaks and getStats return the same before and after a
\* switch; while tracking is off no call except
\* clear() changes allocations_, in particular an untrackAllocation of a live
\* address does not remove its record.
C14_SetEnabledFrame ==
    [][/\ lastOp'.name = "setEnabled" =>
            /\ UNCHANGED <<allocations_, currentMemoryUsage_,
                           peakMemoryUsage_, categoryStats_>>
            /\ \E b \in BOOLEAN : Reg' = setEnabled(Reg, b) /\ enabled_' = b
            /\ enabled_' # enabled_ =>
                 /\ hasLeaks(Reg') = hasLeaks(Reg)
                 /\ getLeakCount(Reg') = getLeakCount(Reg)
                 /\ getLeaks(Reg') = getLeaks(Reg)
                 /\ getStats(Reg') = getStats(Reg)
       /\ (~enabled_ /\ lastOp'.name \notin {"clear", "setEnabled"}) =>
            UNCHANGED allocations_]_vars

\* tracking is off, the last call was an untrackAllocation of a live address,
\* and the record tracked before the switch is still reported
C14_Witness ==
    /\ ~enabled_
    /\ lastOp.name = "untrackAllocation"
    /\ lastOp.wasLive
    /\ hasLeaks(Reg)
    /\ getStats(Reg).totalLeaks = Cardinality(live)

\* the live addresses whose record has value v in field key
LiveWith(key, v) == {p \in DOMAIN allocations_ : allocations_[p][key] = v}

\* the size_t sum of the values of map m over the keys in S
RECURSIVE SumValues(_, _)
SumValues(m, S) ==
    IF S = {} THEN 0
    ELSE LET k == CHOOSE x \in S : TRUE
         IN (m[k] + SumValues(m, S \ {k})) % Mod

\* C15: in the result of getStats(), leaksByCategory[c] is the sum of size over
\* the live records with category c and leaksByFile[f] the sum over the live
\* records with file f; a key is present exactly when some live record has
\* that category or file; each map sums to totalLeakedBytes. This holds after
\* duplicate tracks too, when categoryStats_ no longer agrees.
C15_StatsGrouping ==
    LET stats == getStats(Reg)
    IN /\ DOMAIN stats.leaksByCategory =
            {c \in Categories : LiveWith("category", c) # {}}
       /\ \A c \in DOMAIN stats.leaksByCategory :
            stats.leaksByCategory[c] =
                SumSizes(allocations_, LiveWith("category", c))
       /\ DOMAIN stats.leaksByFile =
            {f \in SourceFiles : LiveWith("file", f) # {}}
       /\ \A f \in DOMAIN stats.leaksByFile :
            stats.leaksByFile[f] = SumSizes(allocations_, LiveWith("file", f))
       /\ stats.totalLeakedBytes = SumLive
       /\ SumValues(stats.leaksByCategory, DOMAIN stats.leaksByCategory) =
            stats.totalLeakedBytes
       /\ SumValues(stats.leaksByFile, DOMAIN stats.leaksByFile) =
            stats.totalLeakedBytes

\* live records of two categories and two files after a duplicate track, with
\* a kept category total that differs from the one getStats() reports
C15_Witness ==
    /\ ~noDup
    /\ Cardinality(DOMAIN getStats(Reg).leaksByCategory) = 2
    /\ Cardinality(DOMAIN getStats(Reg).leaksByFile) = 2
    /\ getStats(Reg).leaksByCategory # categoryStats_

C17_PeakExact ==
    [][peakMemoryUsage_' =
         IF lastOp'.name = "resetStats" THEN currentMemoryUsage_'
         ELSE IF currentMemoryUsage_' > peakMemoryUsage_
              THEN currentMemoryUsage_' ELSE peakMemoryUsage_]_vars

\* C18: every result getStats() returns while another thread runs
\* trackAllocation or untrackAllocation has peakMemoryUsage >=
\* currentMemoryUsage.
C18_ReaderPeakAtLeastCurrent ==
    \A t \in Threads :
        (op[t].name = "getStats" /\ pc[t] = "done") =>
            loc[t].stats.peakMemoryUsage >= loc[t].stats.currentMemoryUsage

\* C19: in a run of track, untrack and clear calls in which no address was
\* tracked again while live, categoryStats_[c] equals the sum of size over the
\* live records with category c, and reads 0 when there is none.
C19_CategoryTotals ==
    noDup =>
        \A c \in Categories :
            At(categoryStats_, c) =
                SumSizes(allocations_, LiveWith("category", c))

\* an untrack removed the last record of one category, whose total is kept
\* as a key with value 0, while a record of the other category is live
C19_Witness ==
    /\ noDup
    /\ lastOp.name = "untrackAllocation"
    /\ lastOp.wasLive
    /\ enabled_
    /\ \E c \in DOMAIN categoryStats_ :
         /\ LiveWith("category", c) = {}
         /\ categoryStats_[c] = 0
    /\ \E d \in DOMAIN categoryStats_ :
         /\ LiveWith("category", d) # {}
         /\ categoryStats_[d] > 0

\* the place of a key in the byte-wise order of std::string
StringRank(s) ==
    CASE s = "a.cpp" -> 1
      [] s = "b.cpp" -> 2
      [] s = "buffers" -> 3
      [] s = "general" -> 4

\* lines First+1 .. First+Count of rep are breakdown lines whose keys are
\* exactly Keys, in ascending order
KeysAscendingAt(rep, First, Count, Keys) ==
    /\ {rep[First + j][1] : j \in 1..Count} = Keys
    /\ \A j \in 1..(Count - 1) :
         StringRank(rep[First + j][1]) < StringRank(rep[First + j + 1][1])

NearestHundredths(v, n, unit) ==
    LET shift == unit \div KiB
        rem == n % unit
        d == v - 100 * (n \div unit)
        \* 100 * rem / unit - d = (e + f) / KiB with 0 <= f - fl < 1
        e == 100 * (rem \div shift) - d * KiB
        fl == (100 * (rem % shift)) \div shift
        exact == (100 * (rem % shift)) % shift = 0
    IN /\ d \in 0..100
       /\ 2 * (e + fl) >= 0 - KiB
       /\ 2 * (e + fl) < KiB \/ (2 * (e + fl) = KiB /\ exact)

RECURSIVE SumExact(_, _)
SumExact(m, S) ==
    IF S = {} THEN 0
    ELSE LET k == CHOOSE x \in S : TRUE
         IN m[k].size + SumExact(m, S \ {k})

\* by how much currentMemoryUsage_ exceeds the sizes of the live records
Drift == currentMemoryUsage_ - SumExact(allocations_, DOMAIN allocations_)

\* registry r after untrackAllocation of every live address (r.enabled holds)
RECURSIVE UntrackAll(_)
UntrackAll(r) ==
    IF DOMAIN r.allocations = {} THEN r
    ELSE UntrackAll(untrackAllocation(r, CHOOSE p \in DOMAIN r.allocations : TRUE))

\* the step is a trackAllocation of an address that was live
DuplicateTrackStep ==
    /\ lastOp'.name = "trackAllocation"
    /\ lastOp'.wasLive
    /\ enabled_

\* what every step does to the drift while no addition has wrapped: the
\* usage is at least the live sum; only clear() lowers the drift, to 0; a
\* duplicate track raises it by the size of the record it overwrites
DriftRule ==
    /\ Drift' >= 0
    /\ lastOp'.name # "clear" => Drift' >= Drift
    /\ lastOp'.name = "clear" => Drift' = 0
    /\ (Drift > 0 /\ Drift' = 0) => lastOp'.name = "clear"
    /\ DuplicateTrackStep =>
         \A ptr \in DOMAIN allocations_, size \in Sizes, file \in Files,
            category \in Categories :
             Reg' = trackAllocation(Reg, ptr, size, file, category) =>
                 Drift' = Drift + allocations_[ptr].size
    /\ (lastOp'.name = "trackAllocation" /\ ~DuplicateTrackStep) =>
         Drift' = Drift

\* C22 as claimed: drift is only upward and never self-corrects (DriftRule),
\* so after a duplicate track, untracking every live address leaves
\* hasLeaks() false but currentMemoryUsage_ > 0.
C22_DriftLeavesUsage ==
    [][~overflowed' =>
         /\ DriftRule
         /\ DuplicateTrackStep =>
              /\ ~hasLeaks(UntrackAll(Reg'))
              /\ UntrackAll(Reg').currentMemoryUsage > 0]_vars

\* C22, amended: drift is only upward and never self-corrects (DriftRule),
\* so after a duplicate track, untracking every live address leaves
\* hasLeaks() false and currentMemoryUsage_ equal to the drift: the sizes of
\* the overwritten records, which is > 0 unless they all had size 0.
C22_DriftUpward ==
    [][~overflowed' =>
         /\ DriftRule
         /\ DuplicateTrackStep =>
              /\ ~hasLeaks(UntrackAll(Reg'))
              /\ UntrackAll(Reg').currentMemoryUsage = Drift'
              /\ (UntrackAll(Reg').currentMemoryUsage > 0) <=>
                   (Drift > 0 \/ Drift' > Drift)]_vars

\* every live address was untracked after a duplicate track, no addition
\* wrapped, and the usage that stays is the drift
C22_Witness ==
    /\ ~overflowed
    /\ lastOp.name = "untrackAllocation"
    /\ lastOp.wasLive
    /\ enabled_
    /\ ~hasLeaks(Reg)
    /\ currentMemoryUsage_ > 0
    /\ Drift = currentMemoryUsage_

\* C23: the null address is ignored: trackAllocation(nullptr, ...) and
\* untrackAllocation(nullptr) leave the whole registry unchanged, also while
\* tracking is on, and the null address is never a key of allocations_.
C23_NullIgnored ==
    [][/\ NULL \notin DOMAIN allocations_'
       /\ NULL \notin live'
       /\ (lastOp'.name \in {"trackAllocation", "untrackAllocation"}
             /\ lastOp'.isNull) => UNCHANGED regVars]_vars

\* trackAllocation(nullptr, ...) was called while tracking was on and other
\* records were live
C23_Witness ==
    /\ lastOp.name = "trackAllocation"
    /\ lastOp.isNull
    /\ enabled_
    /\ hasLeaks(Reg)
    /\ currentMemoryUsage_ = SumLive

\* C24: getLeaks() is determined by the live set: one record per live
\* address, none twice, in ascending address order, each the record last
\* tracked for its address; generateReport() numbers its blocks in that
\* order. The calls that led to the live set play no part.
C24_LeaksByAddress ==
    LET leaks == getLeaks(Reg)
        n == Len(leaks)
        rep == generateReport(Reg)
        blockLines == 7
    IN /\ n = Cardinality(live)
       /\ {leaks[i].pointer : i \in 1..n} = live
       /\ \A i, j \in 1..n : i < j => leaks[i].pointer < leaks[j].pointer
       /\ \A i \in 1..n :
            /\ leaks[i].size = allocations_[leaks[i].pointer].size
            /\ leaks[i].file = allocations_[leaks[i].pointer].file
            /\ leaks[i].category = allocations_[leaks[i].pointer].category
       /\ n > 0 =>
            \A i \in 1..n :
                LET first == Len(rep) - blockLines * (n + 1 - i) + 1
                IN /\ rep[first] = <<"Leak #", i>>
                   /\ rep[first + 1] = <<"  Address: ", leaks[i].pointer>>

\* two addresses are live after the track of a new address, in a run that
\* also tracked an address twice
C24_Witness ==
    /\ Cardinality(live) = 2
    /\ lastOp.name = "trackAllocation"
    /\ ~lastOp.wasLive
    /\ ~lastOp.isNull
    /\ enabled_
    /\ ~noDup
    /\ Len(getLeaks(Reg)) = 2
    /\ getLeaks(Reg)[1].pointer < getLeaks(Reg)[2].pointer

====
